---- MODULE Spec2Model ----
(***************************************************************************)
(* Model of the report controller (server/src/controllers/                *)
(* reportController.ts): mention extraction, alias assignment,            *)
(* anonymisation, the submitReport handler and the getReportStatus        *)
(* handler, with the storage, token and alert-scheduling collaborators.   *)
(* Texts are sequences of one-character strings; the regular expressions  *)
(* of the source are modelled character by character.                     *)
(***************************************************************************)
EXTENDS Integers, Sequences, FiniteSets, TLC

(* ------------------------------------------------------------------ *)
(* Character classes of the regular expressions                        *)
(* ------------------------------------------------------------------ *)

LowerSeq == <<"a","b","c","d","e","f","g","h","i","j","k","l","m",
              "n","o","p","q","r","s","t","u","v","w","x","y","z">>

UpperSeq == <<"A","B","C","D","E","F","G","H","I","J","K","L","M",
              "N","O","P","Q","R","S","T","U","V","W","X","Y","Z">>

DigitSeq == <<"0","1","2","3","4","5","6","7","8","9">>

Range(s) == { s[i] : i \in DOMAIN s }

\* \d
IsDigit(c) == c \in Range(DigitSeq)

\* [a-zA-Z0-9._-] : the characters of a plain handle
IsHandleChar(c) ==
    c \in Range(LowerSeq) \cup Range(UpperSeq) \cup Range(DigitSeq) \cup {".", "_", "-"}

\* \w, the class \b is defined by
IsWordChar(c) ==
    c \in Range(LowerSeq) \cup Range(UpperSeq) \cup Range(DigitSeq) \cup {"_"}

\* String.prototype.toLowerCase on one character
ToLowerChar(c) ==
    IF c \in Range(UpperSeq)
    THEN LowerSeq[CHOOSE i \in DOMAIN UpperSeq : UpperSeq[i] = c]
    ELSE c

\* a faulty variant: the handles kept in the case they were typed in
toLowerCaseKeepingCase(s) == s

toLowerCase(s) == [ i \in DOMAIN s |-> ToLowerChar(s[i]) ]

\* [...new Set(arr)] : duplicates dropped, first-seen order kept
RECURSIVE Dedup(_)
Dedup(s) ==
    IF s = <<>> THEN <<>>
    ELSE LET r == Dedup(SubSeq(s, 1, Len(s) - 1))
             x == s[Len(s)]
         IN  IF x \in Range(r) THEN r ELSE Append(r, x)

\* smallest index >= i whose character fails / satisfies a test (Len+1 when none)
RECURSIVE DigitRunEnd(_, _)
DigitRunEnd(t, i) ==
    IF i > Len(t) \/ ~IsDigit(t[i]) THEN i ELSE DigitRunEnd(t, i + 1)

RECURSIVE HandleRunEnd(_, _)
HandleRunEnd(t, i) ==
    IF i > Len(t) \/ ~IsHandleChar(t[i]) THEN i ELSE HandleRunEnd(t, i + 1)

RECURSIVE BracketEnd(_, _)
BracketEnd(t, i) ==
    IF i > Len(t) \/ t[i] = "]" THEN i ELSE BracketEnd(t, i + 1)

(* ------------------------------------------------------------------ *)
(* extractMentions                                                     *)
(* ------------------------------------------------------------------ *)

\* /@\[([^\]]+)\]\((\d+)\)/ tried at position i: the index of the closing
\* parenthesis of the match, 0 when there is no match at i.
UinMatchEnd(t, i) ==
    IF i + 1 > Len(t) \/ t[i] # "@" \/ t[i + 1] # "["
    THEN 0
    ELSE LET j == BracketEnd(t, i + 2)          \* the first "]"
         IN  IF j = i + 2 \/ j + 1 > Len(t) \/ t[j + 1] # "("
             THEN 0
             ELSE LET k == DigitRunEnd(t, j + 2) \* just after the digits
                  IN  IF k = j + 2 \/ k > Len(t) \/ t[k] # ")"
                      THEN 0
                      ELSE k

\* capture group 2 of a match that starts at i and ends at k
UinOfMatch(t, i, k) == SubSeq(t, BracketEnd(t, i + 2) + 2, k - 1)

\* content.matchAll(uinRegex).map(m => m[2]) : leftmost, non-overlapping
RECURSIVE UinMatches(_, _)
UinMatches(t, i) ==
    IF i > Len(t) THEN <<>>
    ELSE LET k == UinMatchEnd(t, i)
         IN  IF k > 0 THEN <<UinOfMatch(t, i, k)>> \o UinMatches(t, k + 1)
             ELSE UinMatches(t, i + 1)

\* a faulty variant: the structured references left in place
StripNothing(t, i) == t

\* content.replace(/@\[[^\]]+\]\(\d+\)/g, '')
RECURSIVE StripUins(_, _)
StripUins(t, i) ==
    IF i > Len(t) THEN <<>>
    ELSE LET k == UinMatchEnd(t, i)
         IN  IF k > 0 THEN StripUins(t, k + 1)
             ELSE <<t[i]>> \o StripUins(t, i + 1)

\* matchAll(/@([a-zA-Z0-9._-]+)/g).map(m => m[1])
RECURSIVE UsernameMatches(_, _)
UsernameMatches(t, i) ==
    IF i > Len(t) THEN <<>>
    ELSE IF t[i] = "@" /\ HandleRunEnd(t, i + 1) > i + 1
         THEN <<SubSeq(t, i + 1, HandleRunEnd(t, i + 1) - 1)>>
                  \o UsernameMatches(t, HandleRunEnd(t, i + 1))
         ELSE UsernameMatches(t, i + 1)

extractMentions(content) ==
    LET contentWithoutAutocomplete == StripUins(content, 1)
        usernameMatches == UsernameMatches(contentWithoutAutocomplete, 1)
    IN  [ uins      |-> Dedup(UinMatches(content, 1)),
          usernames |-> Dedup([ i \in DOMAIN usernameMatches |->
                                  toLowerCase(usernameMatches[i]) ]) ]

(* ------------------------------------------------------------------ *)
(* anonymizeContent                                                    *)
(* ------------------------------------------------------------------ *)

\* One character of a key used as regular-expression source: "." is the
\* wildcard, every other handle character stands for itself.
KeyCharMatches(k, c, ignoreCase) ==
    \/ k = "."
    \/ IF ignoreCase THEN ToLowerChar(k) = ToLowerChar(c) ELSE k = c

\* the key, as a pattern, matches t[i .. i + Len(key) - 1]
KeyMatchesAt(t, i, key, ignoreCase) ==
    /\ i + Len(key) - 1 <= Len(t)
    /\ \A n \in 1..Len(key) : KeyCharMatches(key[n], t[i + n - 1], ignoreCase)

\* new RegExp(`@\\[[^\\]]+\\]\\(${key}\\)`, 'g') tried at position i
KeyUinMatchEnd(t, i, key) ==
    IF i + 1 > Len(t) \/ t[i] # "@" \/ t[i + 1] # "["
    THEN 0
    ELSE LET j == BracketEnd(t, i + 2)
             k == j + 2 + Len(key)
         IN  IF j = i + 2 \/ j + 1 > Len(t) \/ t[j + 1] # "("
             THEN 0
             ELSE IF KeyMatchesAt(t, j + 2, key, FALSE) /\ k <= Len(t) /\ t[k] = ")"
                  THEN k
                  ELSE 0

\* \b between positions e and e + 1
WordBoundaryAfter(t, e) ==
    IsWordChar(t[e]) # (e + 1 <= Len(t) /\ IsWordChar(t[e + 1]))

\* new RegExp(`@${key}\\b`, 'gi') tried at position i
KeyUsernameMatchEnd(t, i, key) ==
    IF t[i] = "@" /\ Len(key) > 0 /\ KeyMatchesAt(t, i + 1, key, TRUE)
       /\ WordBoundaryAfter(t, i + Len(key))
    THEN i + Len(key)
    ELSE 0

\* anonymized.replace(uinRegex, alias)
RECURSIVE ReplaceUinFormat(_, _, _, _)
ReplaceUinFormat(t, i, key, alias) ==
    IF i > Len(t) THEN <<>>
    ELSE LET k == KeyUinMatchEnd(t, i, key)
         IN  IF k > 0 THEN alias \o ReplaceUinFormat(t, k + 1, key, alias)
             ELSE <<t[i]>> \o ReplaceUinFormat(t, i + 1, key, alias)

\* anonymized.replace(usernameRegex, alias)
RECURSIVE ReplaceUsernameFormat(_, _, _, _)
ReplaceUsernameFormat(t, i, key, alias) ==
    IF i > Len(t) THEN <<>>
    ELSE LET k == KeyUsernameMatchEnd(t, i, key)
         IN  IF k > 0 THEN alias \o ReplaceUsernameFormat(t, k + 1, key, alias)
             ELSE <<t[i]>> \o ReplaceUsernameFormat(t, i + 1, key, alias)

\* one iteration of the loop over aliasMap.entries()
AnonymizeEntry(t, key, alias) ==
    ReplaceUsernameFormat(ReplaceUinFormat(t, 1, key, alias), 1, key, alias)

\* aliasMap is the sequence of the Map's entries in insertion order
RECURSIVE anonymizeContent(_, _)
anonymizeContent(content, aliasMap) ==
    IF aliasMap = <<>> THEN content
    ELSE anonymizeContent(AnonymizeEntry(content, aliasMap[1].key, aliasMap[1].alias),
                          Tail(aliasMap))

(* ------------------------------------------------------------------ *)
(* Data of the model                                                   *)
(* ------------------------------------------------------------------ *)

\* bounds of the exploration
MaxSubmits == 2
MaxQueries == 1

RegEmail == "reg@x.org"
UnkEmail == "unk@x.org"
Emails == {"", RegEmail, UnkEmail}

IncidentTypes == {"physical", "verbal", "psychological"}
TypeInputs == IncidentTypes \cup {"", "other"}

Org1 == "org1"
OrgInputs == {"", Org1}

\* interim_relief: absent (undefined) or a list of relief-option ids
NoRelief == [present |-> FALSE, value |-> <<>>]
ReliefInputs == {NoRelief, [present |-> TRUE, value |-> <<"transfer">>]}

\* narratives submitted in the model (the empty text is the missing content)
Contents ==
    << <<"h","i">>,                                             \* hi
       <<"@","j"," ","@","[","J","]","(","7",")">>,             \* @j @[J](7)
       <<"@","j",".","d"," ","@","j">>,                         \* @j.d @j
       <<"@","[","J","]","(","7",")"," ","@","7">>,             \* @[J](7) @7
       <<"@","J"," ","@","[","N","]","(","9",")"," ","@","j">> >> \* @J @[N](9) @j

\* utils/identity hashEmail: a deterministic one-way hash of the address
hashEmail(email) == <<"sha", email>>

\* rows of identity_mapping: the reporter, and people a narrative may name
ReporterRow == [email_hash |-> hashEmail(RegEmail), username |-> <<"r">>, uin |-> <<"1">>]
Jane     == [email_hash |-> hashEmail("j@x.org"),  username |-> <<"j">>,         uin |-> <<"9">>]
JaneDoe  == [email_hash |-> hashEmail("jd@x.org"), username |-> <<"j",".","d">>, uin |-> <<"8">>]
Seven    == [email_hash |-> hashEmail("n@x.org"),  username |-> <<"7">>,         uin |-> <<"5">>]
JaneToo  == [email_hash |-> hashEmail("j2@x.org"), username |-> <<"j">>,         uin |-> <<"6">>]

\* the stores the model starts from: the other rows of identity_mapping and
\* the uins of public_directory
Worlds ==
    { [ rows |-> {Jane, JaneDoe},  directory |-> {<<"7">>} ],
      [ rows |-> {Jane, Seven},    directory |-> {<<"7">>, <<"9">>} ],
      [ rows |-> {Jane, JaneToo},  directory |-> {} ],
      [ rows |-> {},               directory |-> {<<"7">>, <<"9">>} ] }

\* the request bodies of the model: every combination of present, missing
\* and invalid required fields around one narrative, every narrative from the
\* registered reporter, two from an unregistered one, and one with relief
\* options
Requests ==
    { b \in [ email : Emails, content : Range(Contents) \cup {<<>>},
              incident_type : TypeInputs, organization_id : OrgInputs,
              interim_relief : ReliefInputs ] :
        \/ /\ b.content \in {<<>>, Contents[2]} /\ b.email # UnkEmail
           /\ b.incident_type \in {"", "other", "psychological"}
           /\ b.interim_relief = NoRelief
        \/ /\ b.content # <<>> /\ b.incident_type = "verbal"
           /\ b.organization_id = Org1 /\ b.interim_relief = NoRelief
           /\ \/ b.email = RegEmail
              \/ b.email = UnkEmail /\ b.content \in {Contents[1], Contents[2]}
        \/ /\ b.email = RegEmail /\ b.content = Contents[2]
           /\ b.incident_type = "physical" /\ b.organization_id = Org1
           /\ b.interim_relief # NoRelief }

\* utils/caseToken: a prefixed fixed-length alphanumeric code
TokenPrefix == <<"S","H">>
TokenBody == {"a", "b"}
generateCaseToken == { TokenPrefix \o <<c>> : c \in TokenBody }

isValidCaseToken(token) ==
    /\ Len(token) = Len(TokenPrefix) + 1
    /\ SubSeq(token, 1, Len(TokenPrefix)) = TokenPrefix
    /\ token[Len(token)] \in Range(LowerSeq) \cup Range(UpperSeq) \cup Range(DigitSeq)

\* tokens a status lookup is made with: issued ones, the empty one, malformed ones
TokenInputs == generateCaseToken \cup { <<>>, <<"S","H","-">> }

\* all orders in which a set of rows can be returned
Orderings(S) ==
    { s \in [1..Cardinality(S) -> S] : \A i, j \in DOMAIN s : i # j => s[i] # s[j] }

VARIABLES
    supabase,          \* TRUE when the storage client is configured
    identity_mapping,  \* table: rows [email_hash, username, uin]
    public_directory,  \* table: the uins of the directory
    reports,           \* table: the inserted reports, in insertion order
    submits,           \* submitReport requests started so far
    pc,                \* submitReport: the await the handler is suspended at
    req,               \* submitReport: req.body
    victim_uin,
    mentions,
    aliasMap,          \* entries [key, alias] in insertion order
    aliasCounter,
    subject_uins,
    finalContent,
    case_token,
    report,            \* the row returned by the insert (<<>> before it)
    res,               \* submitReport: the responses sent
    calls,             \* submitReport: the collaborator calls made
    console,           \* submitReport: the lines logged with console.warn / console.error
    queries,           \* getReportStatus requests started so far
    qpc,
    qtoken,            \* getReportStatus: req.params.caseToken
    qres,              \* getReportStatus: the responses sent
    qcalls,            \* getReportStatus: the storage queries made
    fn,                \* a direct call of anonymizeContent: arguments and results
    fcontent,          \* the submit form: formData.content
    ftimer,            \* the submit form: the pending debounce timer of the effect
    flookups,          \* the submit form: the directory lookups in flight
    fedits,            \* the submit form: changes of the content so far
    mentionValidation  \* the submit form: the displayed mention validation

storeVars  == <<supabase, identity_mapping, public_directory>>
submitVars == <<submits, pc, req, victim_uin, mentions, aliasMap, aliasCounter,
                subject_uins, finalContent, case_token, report, res, calls, console>>
statusVars == <<queries, qpc, qtoken, qres, qcalls>>
formVars   == <<fcontent, ftimer, flookups, fedits, mentionValidation>>
vars == <<storeVars, reports, submitVars, statusVars, fn, formVars>>

\* useState<MentionValidation>({ hasMention: false, ... })
NoValidation ==
    [ hasMention |-> FALSE, isValidating |-> FALSE, isValid |-> "null", mentionText |-> <<>> ]

\* the form as mounted: empty content, the effect's first timer pending
FormMounted ==
    /\ fcontent = <<>>
    /\ ftimer = [ set |-> TRUE, content |-> <<>> ]
    /\ flookups = {}
    /\ fedits = 0
    /\ mentionValidation = NoValidation

NoBody == [ email |-> "", content |-> <<>>, incident_type |-> "",
            organization_id |-> "", interim_relief |-> NoRelief ]
NoMentions == [ uins |-> <<>>, usernames |-> <<>> ]
NoCall == [ content |-> <<>>, aliasMap |-> <<>>, once |-> <<>>, twice |-> <<>>, passes |-> 0 ]

Init ==
    /\ supabase \in BOOLEAN
    /\ \E w \in Worlds :
          /\ identity_mapping = {ReporterRow} \cup w.rows
          /\ public_directory = w.directory
    /\ reports = <<>>
    /\ submits = 0
    /\ pc = "idle"
    /\ req = NoBody
    /\ victim_uin = <<>>
    /\ mentions = NoMentions
    /\ aliasMap = <<>>
    /\ aliasCounter = 1
    /\ subject_uins = <<>>
    /\ finalContent = <<>>
    /\ case_token = <<>>
    /\ report = <<>>
    /\ res = <<>>
    /\ calls = <<>>
    /\ console = <<>>
    /\ queries = 0
    /\ qpc = "idle"
    /\ qtoken = <<>>
    /\ qres = <<>>
    /\ qcalls = <<>>
    /\ fn = NoCall
    /\ FormMounted

(* ------------------------------------------------------------------ *)
(* Collaborators                                                       *)
(* ------------------------------------------------------------------ *)

\* the result { data, error } of a query ended by .single(): an error when
\* the query failed or did not select exactly one row
Single(rows, fault) ==
    IF fault \/ Len(rows) # 1
    THEN [ data |-> <<>>, error |-> TRUE ]
    ELSE [ data |-> rows, error |-> FALSE ]

\* a faulty variant: the reporter lookup without its .eq('email_hash', ..) filter
IdentityByHashUnfiltered(emailHash) ==
    CHOOSE s \in Orderings(identity_mapping) : TRUE

\* identity_mapping .select('uin').eq('email_hash', emailHash)
IdentityByHash(emailHash) ==
    LET S == { r \in identity_mapping : r.email_hash = emailHash }
    IN  CHOOSE s \in Orderings(S) : TRUE

\* public_directory .select('uin').in('uin', uins)
DirectoryIn(uins) == { u \in public_directory : u \in Range(uins) }

\* identity_mapping .select('username, uin').in('username', usernames)
IdentityInUsernames(usernames) ==
    { r \in identity_mapping : r.username \in Range(usernames) }

\* a faulty variant: the status query without its .eq('case_token', ..) filter
ReportsByTokenUnfiltered(token) == reports

\* reports .select(...).eq('case_token', token)
ReportsByToken(token) == SelectSeq(reports, LAMBDA r : r.case_token = token)

\* the reports table rejects a second row with the same case token
CaseTokenTaken(token) == \E i \in DOMAIN reports : reports[i].case_token = token

(* ------------------------------------------------------------------ *)
(* submitReport                                                        *)
(* ------------------------------------------------------------------ *)

RECURSIVE DecStr(_)
DecStr(n) ==
    IF n < 10 THEN <<DigitSeq[n + 1]>>
    ELSE DecStr(n \div 10) \o <<DigitSeq[(n % 10) + 1]>>

\* `SUBJECT_${n}`
AliasLabel(n) == <<"S","U","B","J","E","C","T","_">> \o DecStr(n)

\* Map.prototype.set: an existing key keeps its place and takes the new value
MapSet(m, k, v) ==
    IF \E i \in DOMAIN m : m[i].key = k
    THEN [ i \in DOMAIN m |-> IF m[i].key = k THEN [key |-> k, alias |-> v] ELSE m[i] ]
    ELSE Append(m, [key |-> k, alias |-> v])

\* a faulty variant: the presence check without organization_id
MissingRequiredNoOrg(b) ==
    b.email = "" \/ b.content = <<>> \/ b.incident_type = ""

MissingRequired(b) ==
    b.email = "" \/ b.content = <<>> \/ b.incident_type = "" \/ b.organization_id = ""

ValidIncidentType(t) == t \in {"physical", "verbal", "psychological"}

ReporterNotFound(r) == r.error \/ r.data = <<>>

\* for (const uin of mentions.uins) if (validUins.includes(uin)) { ... }
RECURSIVE AddValidUins(_, _, _)
AddValidUins(uins, validUins, st) ==
    IF uins = <<>> THEN st
    ELSE AddValidUins(Tail(uins), validUins,
            IF Head(uins) \in validUins
            THEN [ aliasMap     |-> MapSet(st.aliasMap, Head(uins), AliasLabel(st.aliasCounter)),
                   aliasCounter |-> st.aliasCounter + 1,
                   subject_uins |-> Append(st.subject_uins, Head(uins)) ]
            ELSE st)

\* for (const user of usersByUsername) { ... }
RECURSIVE AddUsers(_, _)
AddUsers(users, st) ==
    IF users = <<>> THEN st
    ELSE AddUsers(Tail(users),
            [ aliasMap     |-> MapSet(st.aliasMap, Head(users).username, AliasLabel(st.aliasCounter)),
              aliasCounter |-> st.aliasCounter + 1,
              subject_uins |-> Append(st.subject_uins, Head(users).uin) ])

\* the row inserted into reports, with the columns the table fills in
NewReport(token) ==
    [ id              |-> Len(reports) + 1,
      victim_uin      |-> victim_uin,
      subject_uins    |-> subject_uins,
      content         |-> finalContent,
      incident_type   |-> req.incident_type,
      interim_relief  |-> IF req.interim_relief.present THEN req.interim_relief.value ELSE <<>>,
      organization_id |-> req.organization_id,
      case_token      |-> token,
      status          |-> "pending",
      created_at      |-> Len(reports) + 1,
      closed_at       |-> "null" ]

ErrorResponse(status, message) == [ status |-> status, body |-> [ error |-> message ] ]

\* a faulty variant: the success response with the stored row echoed
SuccessResponseEchoing(r) ==
    [ status |-> 201,
      body   |-> [ message    |-> "Report submitted successfully",
                   case_token |-> r.case_token,
                   created_at |-> r.created_at,
                   content    |-> finalContent,
                   subject_uins |-> subject_uins ] ]

SuccessResponse(r) ==
    [ status |-> 201,
      body   |-> [ message    |-> "Report submitted successfully",
                   case_token |-> r.case_token,
                   created_at |-> r.created_at ] ]

\* a faulty variant: the answer sent twice
RespondTwice(r) ==
    /\ res' = Append(Append(res, r), r)
    /\ pc' = "done"

\* res.status(..).json(..); return
Respond(r) ==
    /\ res' = Append(res, r)
    /\ pc' = "done"

\* lines 183-206: anonymize, issue the token, start the insert
CreateReport(st) ==
    /\ aliasMap' = st.aliasMap
    /\ aliasCounter' = st.aliasCounter
    /\ subject_uins' = st.subject_uins
    /\ finalContent' = IF Len(st.aliasMap) > 0
                       THEN anonymizeContent(req.content, st.aliasMap)
                       ELSE req.content
    /\ \E t \in generateCaseToken : case_token' = t
    /\ calls' = Append(calls, "reports.insert")
    /\ pc' = "insert"

\* lines 161-181 up to the await of the username lookup
ResolveUsernames(m, st) ==
    IF Len(m.usernames) > 0
    THEN /\ aliasMap' = st.aliasMap
         /\ aliasCounter' = st.aliasCounter
         /\ subject_uins' = st.subject_uins
         /\ finalContent' = req.content
         /\ case_token' = <<>>
         /\ calls' = Append(calls, "identity_mapping.in")
         /\ pc' = "usernameLookup"
    ELSE CreateReport(st)

\* a request arrives: lines 79-113, up to the await of the reporter lookup
SubmitStart(b) ==
    /\ pc = "idle"
    /\ qpc # "done"
    /\ submits < MaxSubmits
    /\ submits' = submits + 1
    /\ req' = b
    /\ victim_uin' = <<>>
    /\ mentions' = NoMentions
    /\ aliasMap' = <<>>
    /\ aliasCounter' = 1
    /\ subject_uins' = <<>>
    /\ finalContent' = <<>>
    /\ case_token' = <<>>
    /\ report' = <<>>
    /\ console' = <<>>
    /\ IF ~supabase
       THEN /\ res' = <<ErrorResponse(503, "Database not configured")>>
            /\ pc' = "done" /\ calls' = <<>>
       ELSE IF MissingRequired(b)
       THEN /\ res' = <<ErrorResponse(400, "Missing required fields")>>
            /\ pc' = "done" /\ calls' = <<>>
       ELSE IF ~ValidIncidentType(b.incident_type)
       THEN /\ res' = <<ErrorResponse(400, "Invalid incident type")>>
            /\ pc' = "done" /\ calls' = <<>>
       ELSE /\ res' = <<>>
            /\ calls' = <<"identity_mapping.single">>
            /\ pc' = "victimLookup"
    /\ UNCHANGED <<storeVars, reports, statusVars, fn, formVars>>

\* the reporter lookup returns: lines 115-141
VictimLookupReturns(fault) ==
    /\ pc = "victimLookup"
    /\ qpc # "done"
    /\ LET r == Single(IdentityByHash(hashEmail(req.email)), fault)
           m == extractMentions(req.content)
           st == [ aliasMap |-> <<>>, aliasCounter |-> 1, subject_uins |-> <<>> ]
       IN  IF ReporterNotFound(r)
           THEN /\ Respond(ErrorResponse(404, "User not found. Please register first."))
                /\ UNCHANGED <<victim_uin, mentions, aliasMap, aliasCounter,
                               subject_uins, finalContent, case_token, calls>>
           ELSE /\ victim_uin' = r.data[1].uin
                /\ mentions' = m
                /\ res' = res
                /\ IF Len(m.uins) > 0
                   THEN /\ aliasMap' = <<>>
                        /\ aliasCounter' = 1
                        /\ subject_uins' = <<>>
                        /\ finalContent' = req.content
                        /\ case_token' = <<>>
                        /\ calls' = Append(calls, "public_directory.in")
                        /\ pc' = "uinLookup"
                   ELSE ResolveUsernames(m, st)
    /\ UNCHANGED <<storeVars, reports, submits, req, report, console, statusVars, fn, formVars>>

\* the directory check of the structured mentions returns: lines 143-169
UinLookupReturns(fault) ==
    /\ pc = "uinLookup"
    /\ qpc # "done"
    /\ IF fault
       THEN /\ Respond(ErrorResponse(500, "Failed to validate mentioned users"))
            /\ UNCHANGED <<aliasMap, aliasCounter, subject_uins, finalContent,
                           case_token, calls>>
       ELSE /\ res' = res
            /\ ResolveUsernames(mentions,
                  AddValidUins(mentions.uins, DirectoryIn(mentions.uins),
                      [ aliasMap |-> aliasMap, aliasCounter |-> aliasCounter,
                        subject_uins |-> subject_uins ]))
    /\ UNCHANGED <<storeVars, reports, submits, req, victim_uin, mentions, report,
                   console, statusVars, fn, formVars>>

\* a faulty variant: the username lookup with its error propagated
UsernameLookupReturnsPropagating(fault) ==
    /\ pc = "usernameLookup"
    /\ qpc # "done"
    /\ IF fault
       THEN /\ Respond(ErrorResponse(500, "Failed to validate mentioned users"))
            /\ console' = Append(console, "Username lookup error:")
            /\ UNCHANGED <<aliasMap, aliasCounter, subject_uins, finalContent,
                           case_token, calls>>
       ELSE /\ \E usersByUsername \in Orderings(IdentityInUsernames(mentions.usernames)) :
                  CreateReport(AddUsers(usersByUsername,
                      [ aliasMap |-> aliasMap, aliasCounter |-> aliasCounter,
                        subject_uins |-> subject_uins ]))
            /\ console' = console
            /\ res' = res
    /\ UNCHANGED <<storeVars, reports, submits, req, victim_uin, mentions, report,
                   statusVars, fn, formVars>>

\* the username lookup returns, its rows in the order the store chose:
\* lines 171-206
UsernameLookupReturns(fault) ==
    /\ pc = "usernameLookup"
    /\ qpc # "done"
    /\ \E usersByUsername \in
            IF fault THEN {<<>>} ELSE Orderings(IdentityInUsernames(mentions.usernames)) :
          CreateReport(AddUsers(usersByUsername,
              [ aliasMap |-> aliasMap, aliasCounter |-> aliasCounter,
                subject_uins |-> subject_uins ]))
    /\ console' = IF fault THEN Append(console, "Username lookup error:") ELSE console
    /\ res' = res
    /\ UNCHANGED <<storeVars, reports, submits, req, victim_uin, mentions, report,
                   statusVars, fn, formVars>>

\* a faulty variant: the insert with the alerts scheduled whatever its outcome
InsertReturnsSchedulingAnyway(fault) ==
    /\ pc = "insert"
    /\ qpc # "done"
    /\ IF fault \/ CaseTokenTaken(case_token)
       THEN /\ Respond(ErrorResponse(500, "Failed to submit report"))
            /\ console' = Append(console, "Report submission error:")
            /\ calls' = Append(calls, "scheduleTimelineAlerts")
            /\ UNCHANGED <<reports, report>>
       ELSE /\ reports' = Append(reports, NewReport(case_token))
            /\ report' = <<[ id         |-> NewReport(case_token).id,
                             case_token |-> NewReport(case_token).case_token,
                             created_at |-> NewReport(case_token).created_at ]>>
            /\ calls' = Append(calls, "scheduleTimelineAlerts")
            /\ res' = res
            /\ console' = console
            /\ pc' = "schedule"
    /\ UNCHANGED <<storeVars, submits, req, victim_uin, mentions, aliasMap,
                   aliasCounter, subject_uins, finalContent, case_token, statusVars, fn, formVars>>

\* the insert returns: lines 208-221
InsertReturns(fault) ==
    /\ pc = "insert"
    /\ qpc # "done"
    /\ IF fault \/ CaseTokenTaken(case_token)
       THEN /\ Respond(ErrorResponse(500, "Failed to submit report"))
            /\ console' = Append(console, "Report submission error:")
            /\ UNCHANGED <<reports, report, calls>>
       ELSE /\ reports' = Append(reports, NewReport(case_token))
            /\ report' = <<[ id         |-> NewReport(case_token).id,
                             case_token |-> NewReport(case_token).case_token,
                             created_at |-> NewReport(case_token).created_at ]>>
            /\ calls' = Append(calls, "scheduleTimelineAlerts")
            /\ res' = res
            /\ console' = console
            /\ pc' = "schedule"
    /\ UNCHANGED <<storeVars, submits, req, victim_uin, mentions, aliasMap,
                   aliasCounter, subject_uins, finalContent, case_token, statusVars, fn, formVars>>

\* a faulty variant: a scheduling failure reaching the outer catch
ScheduleReturnsSurfacing(throws) ==
    /\ pc = "schedule"
    /\ qpc # "done"
    /\ console' = IF throws THEN Append(console, "Submit report error:") ELSE console
    /\ Respond(IF throws THEN ErrorResponse(500, "Internal server error")
                         ELSE SuccessResponse(report[1]))
    /\ UNCHANGED <<storeVars, reports, submits, req, victim_uin, mentions, aliasMap,
                   aliasCounter, subject_uins, finalContent, case_token, report,
                   calls, statusVars, fn, formVars>>

\* scheduleTimelineAlerts returns or throws: lines 222-235
ScheduleReturns(throws) ==
    /\ pc = "schedule"
    /\ qpc # "done"
    /\ console' = IF throws THEN Append(console, "Timeline alerts not scheduled:") ELSE console
    /\ Respond(SuccessResponse(report[1]))
    /\ UNCHANGED <<storeVars, reports, submits, req, victim_uin, mentions, aliasMap,
                   aliasCounter, subject_uins, finalContent, case_token, report,
                   calls, statusVars, fn, formVars>>

\* an awaited storage call rejects instead of returning: the outer catch of
\* lines 237-240 logs the exception and answers 500; nothing was written
AwaitThrows ==
    /\ pc \in {"victimLookup", "uinLookup", "usernameLookup", "insert"}
    /\ qpc # "done"
    /\ console' = Append(console, "Submit report error:")
    /\ Respond(ErrorResponse(500, "Internal server error"))
    /\ UNCHANGED <<storeVars, reports, submits, req, victim_uin, mentions, aliasMap,
                   aliasCounter, subject_uins, finalContent, case_token, report,
                   calls, statusVars, fn, formVars>>

(* ------------------------------------------------------------------ *)
(* getReportStatus                                                     *)
(* ------------------------------------------------------------------ *)

\* the columns a status lookup selects
StatusView(r) ==
    [ status |-> r.status, incident_type |-> r.incident_type,
      created_at |-> r.created_at, closed_at |-> r.closed_at ]

\* a faulty variant: the token check without the format test
InvalidTokenEmptyOnly(token) == token = <<>>

InvalidToken(token) == token = <<>> \/ ~isValidCaseToken(token)

\* a lookup arrives: lines 251-269, up to the await of the reports query
StatusStart(token) ==
    /\ qpc = "idle"
    /\ pc # "done"
    /\ queries < MaxQueries
    /\ queries' = queries + 1
    /\ qtoken' = token
    /\ IF ~supabase
       THEN /\ qres' = <<ErrorResponse(503, "Database not configured")>>
            /\ qpc' = "done" /\ qcalls' = <<>>
       ELSE IF InvalidToken(token)
       THEN /\ qres' = <<ErrorResponse(400, "Invalid case token format")>>
            /\ qpc' = "done" /\ qcalls' = <<>>
       ELSE /\ qres' = <<>>
            /\ qcalls' = <<"reports.single">>
            /\ qpc' = "query"
    /\ UNCHANGED <<storeVars, reports, submitVars, fn, formVars>>

\* the reports query returns: lines 271-276
StatusQueryReturns(fault) ==
    /\ qpc = "query"
    /\ pc # "done"
    /\ LET r == Single(ReportsByToken(qtoken), fault)
       IN  qres' = Append(qres,
               IF r.error \/ r.data = <<>>
               THEN ErrorResponse(404, "Report not found")
               ELSE [ status |-> 200, body |-> StatusView(r.data[1]) ])
    /\ qpc' = "done"
    /\ UNCHANGED <<storeVars, reports, submitVars, queries, qtoken, qcalls, fn, formVars>>

\* A handler returns right after its response and its frame is gone.  The
\* code from the resumption after an await to the return runs to completion,
\* so nothing else runs between a response and the return.
SubmitFinish ==
    /\ pc = "done"
    /\ pc' = "idle"
    /\ req' = NoBody
    /\ victim_uin' = <<>>
    /\ mentions' = NoMentions
    /\ aliasMap' = <<>>
    /\ aliasCounter' = 1
    /\ subject_uins' = <<>>
    /\ finalContent' = <<>>
    /\ case_token' = <<>>
    /\ report' = <<>>
    /\ res' = <<>>
    /\ calls' = <<>>
    /\ console' = <<>>
    /\ UNCHANGED <<storeVars, reports, submits, statusVars, fn, formVars>>

StatusFinish ==
    /\ qpc = "done"
    /\ qpc' = "idle"
    /\ qtoken' = <<>>
    /\ qres' = <<>>
    /\ qcalls' = <<>>
    /\ UNCHANGED <<storeVars, reports, submitVars, queries, fn, formVars>>

Next ==
    \/ \E b \in Requests : SubmitStart(b)
    \/ \E fault \in BOOLEAN : VictimLookupReturns(fault)
    \/ \E fault \in BOOLEAN : UinLookupReturns(fault)
    \/ \E fault \in BOOLEAN : UsernameLookupReturns(fault)
    \/ \E fault \in BOOLEAN : InsertReturns(fault)
    \/ \E throws \in BOOLEAN : ScheduleReturns(throws)
    \/ AwaitThrows
    \/ \E token \in TokenInputs : StatusStart(token)
    \/ \E fault \in BOOLEAN : StatusQueryReturns(fault)
    \/ SubmitFinish
    \/ StatusFinish

Spec == Init /\ [][Next]_vars

\* The end of a submission, for the claims about what the caller eventually
\* gets: the insert returns, a status query returns, and a handler that has
\* answered returns.  Nothing makes scheduleTimelineAlerts settle, so its
\* return is not a fair step.
SpecLive ==
    /\ Init /\ [][Next]_vars
    /\ WF_vars(\E fault \in BOOLEAN : InsertReturns(fault))
    /\ WF_vars(\E fault \in BOOLEAN : StatusQueryReturns(fault))
    /\ WF_vars(SubmitFinish)
    /\ WF_vars(StatusFinish)

(* ------------------------------------------------------------------ *)
(* anonymizeContent called directly                                    *)
(* ------------------------------------------------------------------ *)

\* the longest text, in fragments
MaxPieces == 5

\* fragments of mention syntax the texts are built from
AnonPieces ==
    { <<"@","[">>, <<"]","(","7",")">>, <<"@","j">>, <<"@","J">>,
      <<".","d">>, <<" ">>, <<"]">>, <<"d">> }

RECURSIVE TextsUpTo(_)
TextsUpTo(n) ==
    IF n = 0 THEN { <<>> }
    ELSE LET S == TextsUpTo(n - 1)
         IN  S \cup { t \o p : t \in S, p \in AnonPieces }

\* the alias assignment submitReport builds for the keys, resolved in this order
AliasMapOf(keys) == [ i \in DOMAIN keys |-> [ key |-> keys[i], alias |-> AliasLabel(i) ] ]

AnonMaps ==
    { AliasMapOf(ks) : ks \in { << <<"7">> >>, << <<"j">> >>, << <<"j",".","d">> >>,
                                << <<"7">>, <<"j">> >>, << <<"7">>, <<"j",".","d">> >>,
                                << <<"j">>, <<"j",".","d">> >>,
                                << <<"j",".","d">>, <<"j">> >> } }

InitAnon ==
    /\ supabase = TRUE
    /\ identity_mapping = {ReporterRow}
    /\ public_directory = {}
    /\ reports = <<>>
    /\ submits = 0
    /\ pc = "idle"
    /\ req = NoBody
    /\ victim_uin = <<>>
    /\ mentions = NoMentions
    /\ aliasMap = <<>>
    /\ aliasCounter = 1
    /\ subject_uins = <<>>
    /\ finalContent = <<>>
    /\ case_token = <<>>
    /\ report = <<>>
    /\ res = <<>>
    /\ calls = <<>>
    /\ console = <<>>
    /\ queries = 0
    /\ qpc = "idle"
    /\ qtoken = <<>>
    /\ qres = <<>>
    /\ qcalls = <<>>
    /\ \E t \in TextsUpTo(MaxPieces), m \in AnonMaps :
          fn = [ content |-> t, aliasMap |-> m, once |-> <<>>, twice |-> <<>>, passes |-> 0 ]
    /\ FormMounted

\* finalContent = anonymizeContent(content, aliasMap)
AnonymizeOnce ==
    /\ fn.passes = 0
    /\ fn' = [ fn EXCEPT !.once = anonymizeContent(fn.content, fn.aliasMap), !.passes = 1 ]
    /\ UNCHANGED <<storeVars, reports, submitVars, statusVars, formVars>>

\* a second call on the result of the first, with the same alias assignment
AnonymizeAgain ==
    /\ fn.passes = 1
    /\ fn' = [ fn EXCEPT !.twice = anonymizeContent(fn.once, fn.aliasMap), !.passes = 2 ]
    /\ UNCHANGED <<storeVars, reports, submitVars, statusVars, formVars>>

NextAnon == AnonymizeOnce \/ AnonymizeAgain

SpecAnon == InitAnon /\ [][NextAnon]_vars

(* ------------------------------------------------------------------ *)
(* extractMentions called directly                                     *)
(* ------------------------------------------------------------------ *)

\* the longest text, in fragments
MaxExtractPieces == 4

\* whole structured references and fragments of mention syntax
ExtractPieces ==
    { <<"@","[","J","]","(","7",")">>, <<"@","[","N","]","(","9",")">>,
      <<"@","[">>, <<"]","(","7",")">>, <<"@","j">>, <<"@","J">>,
      <<".","d">>, <<" ">> }

RECURSIVE ExtractTextsUpTo(_)
ExtractTextsUpTo(n) ==
    IF n = 0 THEN { <<>> }
    ELSE LET S == ExtractTextsUpTo(n - 1)
         IN  S \cup { t \o p : t \in S, p \in ExtractPieces }

InitExtract ==
    /\ supabase = TRUE
    /\ identity_mapping = {ReporterRow}
    /\ public_directory = {}
    /\ reports = <<>>
    /\ submits = 0
    /\ pc = "idle"
    /\ \E t \in ExtractTextsUpTo(MaxExtractPieces) : req = [ NoBody EXCEPT !.content = t ]
    /\ victim_uin = <<>>
    /\ mentions = NoMentions
    /\ aliasMap = <<>>
    /\ aliasCounter = 1
    /\ subject_uins = <<>>
    /\ finalContent = <<>>
    /\ case_token = <<>>
    /\ report = <<>>
    /\ res = <<>>
    /\ calls = <<>>
    /\ console = <<>>
    /\ queries = 0
    /\ qpc = "idle"
    /\ qtoken = <<>>
    /\ qres = <<>>
    /\ qcalls = <<>>
    /\ fn = NoCall
    /\ FormMounted

\* const mentions = extractMentions(content)
ExtractOnce ==
    /\ pc = "idle"
    /\ mentions' = extractMentions(req.content)
    /\ pc' = "extracted"
    /\ UNCHANGED <<storeVars, reports, submits, req, victim_uin, aliasMap, aliasCounter,
                   subject_uins, finalContent, case_token, report, res, calls, console,
                   statusVars, fn, formVars>>

NextExtract == ExtractOnce

SpecExtract == InitExtract /\ [][NextExtract]_vars

(* ------------------------------------------------------------------ *)
(* The submit form: debounced validation of the first mention          *)
(* ------------------------------------------------------------------ *)

\* changes of the content explored
MaxEdits == 3

\* contents typed into the form
FormContents ==
    { <<>>, <<"h","i">>, <<"@","j">>, <<"@","N"," ","@","j">>,
      <<"@","[","J","]","(","7",")">> }

\* the start of the first match of /@\[([^\]]+)\]\((\d+)\)/ from i on, 0 when none
RECURSIVE FirstUinMatch(_, _)
FirstUinMatch(t, i) ==
    IF i > Len(t) THEN 0
    ELSE IF UinMatchEnd(t, i) > 0 THEN i
    ELSE FirstUinMatch(t, i + 1)

\* extractMention of the form: the first structured reference, else the
\* first @username of the whole content
extractMention(content) ==
    LET i == FirstUinMatch(content, 1)
        names == UsernameMatches(content, 1)
    IN  IF i > 0
        THEN [ type    |-> "uin",
               value   |-> UinOfMatch(content, i, UinMatchEnd(content, i)),
               display |-> SubSeq(content, i + 2, BracketEnd(content, i + 2) - 1) ]
        ELSE IF names # <<>>
        THEN [ type |-> "username", value |-> names[1], display |-> names[1] ]
        ELSE [ type |-> "null", value |-> <<>>, display |-> <<>> ]

InitForm ==
    /\ supabase = TRUE
    /\ identity_mapping = {ReporterRow}
    /\ public_directory = {}
    /\ reports = <<>>
    /\ submits = 0
    /\ pc = "idle"
    /\ req = NoBody
    /\ victim_uin = <<>>
    /\ mentions = NoMentions
    /\ aliasMap = <<>>
    /\ aliasCounter = 1
    /\ subject_uins = <<>>
    /\ finalContent = <<>>
    /\ case_token = <<>>
    /\ report = <<>>
    /\ res = <<>>
    /\ calls = <<>>
    /\ console = <<>>
    /\ queries = 0
    /\ qpc = "idle"
    /\ qtoken = <<>>
    /\ qres = <<>>
    /\ qcalls = <<>>
    /\ fn = NoCall
    /\ FormMounted

\* the content changes: the effect's cleanup clears the pending timer and
\* the effect sets a new one for the new content
ChangeContent(c) ==
    /\ fedits < MaxEdits
    /\ c # fcontent
    /\ fedits' = fedits + 1
    /\ fcontent' = c
    /\ ftimer' = [ set |-> TRUE, content |-> c ]
    /\ UNCHANGED <<flookups, mentionValidation>>
    /\ UNCHANGED <<storeVars, reports, submitVars, statusVars, fn>>

\* the debounce timer fires: validateMention up to its fetch
TimerFires ==
    /\ ftimer.set
    /\ ftimer' = [ set |-> FALSE, content |-> <<>> ]
    /\ LET mention == extractMention(ftimer.content)
       IN  IF ftimer.content = <<>>
           THEN UNCHANGED <<flookups, mentionValidation>>
           ELSE IF mention.type = "null"
           THEN /\ mentionValidation' = NoValidation
                /\ UNCHANGED flookups
           ELSE IF mention.type = "uin"
           THEN /\ mentionValidation' =
                      [ hasMention |-> TRUE, isValidating |-> FALSE, isValid |-> "true",
                        mentionText |-> mention.display ]
                /\ UNCHANGED flookups
           ELSE /\ mentionValidation' =
                      [ mentionValidation EXCEPT !.hasMention = TRUE, !.isValidating = TRUE,
                                                 !.mentionText = mention.display ]
                /\ flookups' = flookups \cup {[ id |-> fedits, mention |-> mention ]}
    /\ UNCHANGED <<fcontent, fedits>>
    /\ UNCHANGED <<storeVars, reports, submitVars, statusVars, fn>>

\* one of the directory lookups in flight returns some results, none, or fails
FetchReturns(outcome) ==
    /\ \E l \in flookups :
          /\ flookups' = flookups \ {l}
          /\ mentionValidation' =
                [ hasMention |-> TRUE, isValidating |-> FALSE,
                  isValid |-> IF outcome = "found" THEN "true" ELSE "false",
                  mentionText |-> l.mention.display ]
    /\ UNCHANGED <<fcontent, ftimer, fedits>>
    /\ UNCHANGED <<storeVars, reports, submitVars, statusVars, fn>>

NextForm ==
    \/ \E c \in FormContents : ChangeContent(c)
    \/ TimerFires
    \/ \E outcome \in {"found", "none", "throws"} : FetchReturns(outcome)

SpecForm == InitForm /\ [][NextForm]_vars

(* ------------------------------------------------------------------ *)
(* Vocabulary of the properties                                        *)
(* ------------------------------------------------------------------ *)

\* t occurs in s as a contiguous piece
Contains(s, t) ==
    \E i \in 1..(Len(s) - Len(t) + 1) : SubSeq(s, i, i + Len(t) - 1) = t

\* The references of a text, left to right: a structured reference
\* @[name](digits) with its id as key, or outside of those an @handle with
\* its lowercased handle as key.  lit is the literal text of the occurrence.
RECURSIVE References(_, _)
References(t, i) ==
    IF i > Len(t) THEN <<>>
    ELSE IF UinMatchEnd(t, i) > 0
    THEN <<[ lit |-> SubSeq(t, i, UinMatchEnd(t, i)),
             key |-> UinOfMatch(t, i, UinMatchEnd(t, i)) ]>>
            \o References(t, UinMatchEnd(t, i) + 1)
    ELSE IF t[i] = "@" /\ HandleRunEnd(t, i + 1) > i + 1
    THEN <<[ lit |-> SubSeq(t, i, HandleRunEnd(t, i + 1) - 1),
             key |-> toLowerCase(SubSeq(t, i + 1, HandleRunEnd(t, i + 1) - 1)) ]>>
            \o References(t, HandleRunEnd(t, i + 1))
    ELSE References(t, i + 1)

Keys(m) == { m[i].key : i \in DOMAIN m }

AliasOf(m, key) == (CHOOSE e \in Range(m) : e.key = key).alias

\* the text with every reference that has a key in m replaced by the label
\* of that key, and everything else kept
RECURSIVE Rewritten(_, _, _)
Rewritten(t, i, m) ==
    IF i > Len(t) THEN <<>>
    ELSE IF UinMatchEnd(t, i) > 0
    THEN (IF UinOfMatch(t, i, UinMatchEnd(t, i)) \in Keys(m)
          THEN AliasOf(m, UinOfMatch(t, i, UinMatchEnd(t, i)))
          ELSE SubSeq(t, i, UinMatchEnd(t, i)))
            \o Rewritten(t, UinMatchEnd(t, i) + 1, m)
    ELSE IF t[i] = "@" /\ HandleRunEnd(t, i + 1) > i + 1
    THEN (IF toLowerCase(SubSeq(t, i + 1, HandleRunEnd(t, i + 1) - 1)) \in Keys(m)
          THEN AliasOf(m, toLowerCase(SubSeq(t, i + 1, HandleRunEnd(t, i + 1) - 1)))
          ELSE SubSeq(t, i, HandleRunEnd(t, i + 1) - 1))
            \o Rewritten(t, HandleRunEnd(t, i + 1), m)
    ELSE <<t[i]>> \o Rewritten(t, i + 1, m)

(* ------------------------------------------------------------------ *)
(* Properties                                                          *)
(* ------------------------------------------------------------------ *)

\* C6: anonymizeContent leaves unresolved references verbatim: every
\* reference of the text whose key is not a key of the alias assignment
\* still occurs literally in the output.
C6_UnresolvedVerbatim ==
    fn.passes >= 1 =>
        \A r \in Range(References(fn.content, 1)) :
            r.key \notin Keys(fn.aliasMap) => Contains(fn.once, r.lit)

\* C7: anonymizeContent is exhaustive: every occurrence of a resolved
\* reference is replaced by the label of its own entry.  Stated for the
\* texts all of whose references are resolved: the output is the text with
\* each reference replaced by its own label, and holds no resolved
\* reference any more.
C7_Exhaustive ==
    (/\ fn.passes >= 1
     /\ \A r \in Range(References(fn.content, 1)) : r.key \in Keys(fn.aliasMap))
    => /\ fn.once = Rewritten(fn.content, 1, fn.aliasMap)
       /\ \A r \in Range(References(fn.content, 1)) : ~Contains(fn.once, r.lit)

\* C8: anonymizeContent is idempotent for a fixed alias assignment:
\* anonymize(anonymize(t, m), m) = anonymize(t, m).
C8_Idempotent ==
    fn.passes = 2 => fn.twice = fn.once

(* ---- properties of submitReport and getReportStatus ---- *)

\* the request in hand got past the storage check of line 80
Handling == pc # "idle" /\ supabase

\* an exception of the request in hand reached the outer catch
Thrown == "Submit report error:" \in Range(console)

\* a required field is missing, or the incident type is not one of the three
BadFields(b) ==
    \/ b.email = "" \/ b.content = <<>> \/ b.incident_type = "" \/ b.organization_id = ""
    \/ b.incident_type \notin IncidentTypes

\* the identity store has no entry for the address
Unregistered(email) ==
    ~ \E r \in identity_mapping : r.email_hash = hashEmail(email)

\* the number n of a label SUBJECT_n
LabelNumber(alias) == CHOOSE n \in 1..99 : AliasLabel(n) = alias

\* the identities a key of the alias assignment refers to
IdentitiesOf(key) ==
    { u \in public_directory : u = key /\ key \in Range(mentions.uins) }
        \cup { r.uin : r \in { x \in identity_mapping : x.username = key
                                                      /\ key \in Range(mentions.usernames) } }

\* C1: a report is persisted only if it names at least one subject: every
\* persisted report has a non-empty subject list.
C1_PersistedReportNamesSubject ==
    \A i \in DOMAIN reports : reports[i].subject_uins # <<>>

\* C2: when the reporter's address hash has no entry in the identity store,
\* submitReport answers 404 (not the 400 of a validation error), and on that
\* path the only collaborator call is the reporter lookup: no mention
\* lookup, no insert, no alert scheduling.
C2_UnregisteredReporterRejected ==
    (Handling /\ ~BadFields(req) /\ Unregistered(req.email)) =>
        /\ pc \in {"victimLookup", "done"}
        /\ calls = <<"identity_mapping.single">>
        /\ report = <<>>
        /\ (pc = "done" /\ ~Thrown) =>
              res = <<ErrorResponse(404, "User not found. Please register first.")>>

C2_Witness ==
    /\ Handling /\ ~BadFields(req) /\ Unregistered(req.email)
    /\ pc = "done" /\ Len(res) = 1 /\ res[1].status = 404

\* C3: when a required field is missing or the incident type is not one of
\* physical, verbal, psychological, submitReport answers 400 and makes no
\* collaborator call at all: no identity read, no directory read, no
\* insert, no alert scheduling.
C3_ValidationHasNoSideEffects ==
    (Handling /\ BadFields(req)) =>
        /\ pc = "done"
        /\ Len(res) = 1 /\ res[1].status = 400
        /\ calls = <<>>
        /\ report = <<>>

C3_Witness ==
    /\ Handling /\ req.incident_type = "other" /\ req.email = RegEmail
    /\ req.content # <<>> /\ req.organization_id # ""
    /\ pc = "done" /\ res[1].status = 400

\* C4: once the mentions are resolved, the k resolved candidates carry
\* exactly the labels SUBJECT_1..SUBJECT_k, each once, and every structured
\* candidate's number is lower than every plain candidate's.
C4_DenseAliasLabels ==
    pc = "insert" =>
        LET k == aliasCounter - 1
        IN  /\ Len(aliasMap) = k
            /\ { aliasMap[i].alias : i \in DOMAIN aliasMap } = { AliasLabel(n) : n \in 1..k }
            /\ \A i, j \in DOMAIN aliasMap :
                  (/\ aliasMap[i].key \in Range(mentions.uins)
                   /\ aliasMap[j].key \in Range(mentions.usernames)
                   /\ i # j)
                  => LabelNumber(aliasMap[i].alias) < LabelNumber(aliasMap[j].alias)

\* C5: once the mentions are resolved, the subject list has as many entries
\* as the alias assignment, and its entry i is the identity of the
\* reference labelled SUBJECT_i.
C5_SubjectsInAliasOrder ==
    pc = "insert" =>
        /\ Len(subject_uins) = Len(aliasMap)
        /\ \A i \in DOMAIN subject_uins :
              \E e \in Range(aliasMap) :
                  e.alias = AliasLabel(i) /\ subject_uins[i] \in IdentitiesOf(e.key)

\* C9: getReportStatus checks the token format before any storage access:
\* a lookup with an empty or malformed token makes no storage query and is
\* answered 400, and a reports query is only ever made for a token that
\* passed the check.
C9_FormatCheckedBeforeStorage ==
    /\ (qpc # "idle" /\ (qtoken = <<>> \/ ~isValidCaseToken(qtoken))) =>
          /\ qpc = "done"
          /\ qcalls = <<>>
          /\ supabase => qres = <<ErrorResponse(400, "Invalid case token format")>>
    /\ qcalls # <<>> => (qtoken # <<>> /\ isValidCaseToken(qtoken))

C9_Witness ==
    /\ supabase /\ qpc = "done" /\ qtoken = <<"S","H","-">>
    /\ Len(reports) > 0
    /\ qres[1].status = 400 /\ qcalls = <<>>

\* C10: after a submitReport that answered 201 with case token t, a
\* getReportStatus(t) whose reports query is answered by the store passes
\* the format check and returns that report: status pending, the submitted
\* incident type, the creation timestamp of the 201 answer.
C10_TokenRoundTrip ==
    /\ [](\A i \in DOMAIN res :
            res[i].status = 201 =>
               /\ isValidCaseToken(res[i].body.case_token)
               /\ \E n \in DOMAIN reports :
                     /\ reports[n].case_token = res[i].body.case_token
                     /\ reports[n].created_at = res[i].body.created_at
                     /\ reports[n].incident_type = req.incident_type)
    /\ [][\A n \in DOMAIN reports : n \in DOMAIN reports' /\ reports'[n] = reports[n]]_vars
    /\ [][\A n \in DOMAIN reports :
            (StatusStart(reports[n].case_token) /\ supabase) => qpc' = "query"]_vars
    /\ [][\A n \in DOMAIN reports :
            (StatusQueryReturns(FALSE) /\ reports[n].case_token = qtoken) =>
                qres' = <<[ status |-> 200,
                            body   |-> [ status        |-> "pending",
                                         incident_type |-> reports[n].incident_type,
                                         created_at    |-> reports[n].created_at,
                                         closed_at     |-> "null" ] ]>>]_vars

C10_Witness ==
    /\ Len(reports) = 2
    /\ qpc = "done" /\ qtoken = reports[2].case_token
    /\ Len(qres) = 1 /\ qres[1].status = 200
    /\ qres[1].body.created_at = reports[2].created_at

(* ---- alert scheduling and storage faults ---- *)

\* the scheduleTimelineAlerts calls of the request in hand
ScheduleCalls == { i \in DOMAIN calls : calls[i] = "scheduleTimelineAlerts" }

\* the insert of the request in hand has succeeded
InsertSucceeded == report # <<>>

\* C11: a failure of scheduleTimelineAlerts never fails the submission: once
\* the insert has succeeded the handler ends with the 201 answer carrying the
\* case token, whether the scheduler returned or threw; the scheduler is
\* called once (no retry) and the stored reports are not touched while or
\* after it runs.
C11_SchedulingFailureSwallowed ==
    /\ [](InsertSucceeded =>
            /\ Cardinality(ScheduleCalls) = 1
            /\ pc \in {"schedule", "done"}
            /\ pc = "done" =>
                  /\ Len(res) = 1 /\ res[1].status = 201
                  /\ res[1].body.case_token = case_token
                  /\ reports[report[1].id].case_token = case_token)
    /\ [][pc = "schedule" => reports' = reports]_vars

C11_Witness ==
    /\ pc = "done" /\ InsertSucceeded
    /\ console = <<"Timeline alerts not scheduled:">>
    /\ Len(res) = 1 /\ res[1].status = 201

\* C12: the success response is not held pending the scheduling outcome:
\* once the insert has succeeded the caller eventually gets the 201 answer,
\* even if scheduleTimelineAlerts never settles.
C12_ResponseNotHeld ==
    (pc = "schedule") ~> (pc = "done" /\ Len(res) = 1 /\ res[1].status = 201)

\* C13: the scheduler is called only after a successful insert and at most
\* once per submission, as the call that follows the insert; when the insert
\* fails the handler answers 500 with no case token and the scheduler is
\* never called.
C13_ScheduledOnlyAfterInsert ==
    /\ Cardinality(ScheduleCalls) <= 1
    /\ ScheduleCalls # {} =>
          /\ InsertSucceeded
          /\ calls[Len(calls)] = "scheduleTimelineAlerts"
          /\ calls[Len(calls) - 1] = "reports.insert"
          /\ \E n \in DOMAIN reports :
                reports[n].id = report[1].id /\ reports[n].case_token = case_token
    /\ (pc = "done" /\ calls # <<>> /\ calls[Len(calls)] = "reports.insert") =>
          /\ ~InsertSucceeded
          /\ Len(res) = 1 /\ res[1].status = 500
          /\ ~Thrown => res = <<ErrorResponse(500, "Failed to submit report")>>
          /\ "case_token" \notin DOMAIN res[1].body

C13_Witness ==
    /\ pc = "done" /\ calls # <<>> /\ calls[Len(calls)] = "reports.insert"
    /\ console = <<"Report submission error:">>
    /\ Len(res) = 1 /\ res[1].status = 500

\* C14: a storage fault on the reporter read is an internal error, distinct
\* from NotFound: 404 is answered only when the identity store holds no
\* entry for the reporter's address.
C14_NotFoundOnlyWhenNoIdentity ==
    (pc = "done" /\ \E i \in DOMAIN res : res[i].status = 404)
        => Unregistered(req.email)

\* C15: a storage fault of the structured-candidate verification read is
\* not surfaced: the submission goes on (to the plain-handle lookup or to
\* the insert) with no response sent and no structured candidate verified.
C15_StructuredFaultDegrades ==
    [][UinLookupReturns(TRUE) =>
          /\ res' = res
          /\ pc' \in {"usernameLookup", "insert"}
          /\ aliasMap' = <<>> \/ pc' = "insert"]_vars

\* the structured candidates the directory verified, in first-seen order
VerifiedUins == SelectSeq(mentions.uins, LAMBDA u : u \in public_directory)

\* C16: a storage fault of the plain-handle lookup is logged and counts as
\* zero matches: the submission goes on to the insert with no response sent,
\* no plain candidate gets an alias or a subject entry, and the aliases and
\* subjects of the structured candidates stay as they were.
C16_PlainFaultIsZeroMatches ==
    /\ [][UsernameLookupReturns(TRUE) =>
            /\ pc' = "insert" /\ res' = res
            /\ aliasMap' = aliasMap
            /\ aliasCounter' = aliasCounter
            /\ subject_uins' = subject_uins
            /\ console' = Append(console, "Username lookup error:")]_vars
    /\ [](("Username lookup error:" \in Range(console)) =>
            /\ pc \in {"insert", "schedule", "done"}
            /\ subject_uins = VerifiedUins
            /\ Keys(aliasMap) = Range(VerifiedUins)
            /\ \A i \in DOMAIN res :
                  \/ res[i].status = 201
                  \/ res[i] = ErrorResponse(500, "Failed to submit report")
                  \/ Thrown /\ res[i] = ErrorResponse(500, "Internal server error"))

C16_Witness ==
    /\ pc = "done" /\ console = <<"Username lookup error:">>
    /\ Len(res) = 1 /\ res[1].status = 201
    /\ mentions.usernames # <<>>
    /\ subject_uins = <<<<"7">>>>
    /\ reports[report[1].id].subject_uins = <<<<"7">>>>

\* the fixed messages of the error answers
ErrorMessages ==
    { "Database not configured", "Missing required fields", "Invalid incident type",
      "User not found. Please register first.", "Failed to validate mentioned users",
      "Failed to submit report", "Internal server error",
      "Invalid case token format", "Report not found" }

IsErrorAnswer(r) ==
    /\ r.status \in {400, 404, 500, 503}
    /\ DOMAIN r.body = {"error"}
    /\ r.body.error \in ErrorMessages

\* C17: no answer echoes confidential data: an answer of submitReport is a
\* fixed error message, or the fixed success message with the case token and
\* the creation timestamp and nothing else (no content, no subject
\* identities, no reporter identity); an answer of getReportStatus is a fixed
\* error message or exactly status, incident type, created_at, closed_at.
C17_NoConfidentialEcho ==
    /\ \A i \in DOMAIN res :
          \/ IsErrorAnswer(res[i])
          \/ /\ res[i].status = 201
             /\ DOMAIN res[i].body = {"message", "case_token", "created_at"}
             /\ res[i].body.message = "Report submitted successfully"
             /\ res[i].body.case_token = case_token
             /\ res[i].body.created_at = reports[report[1].id].created_at
    /\ \A i \in DOMAIN qres :
          \/ IsErrorAnswer(qres[i])
          \/ /\ qres[i].status = 200
             /\ DOMAIN qres[i].body = {"status", "incident_type", "created_at", "closed_at"}
             /\ qres[i].body.status = "pending"
             /\ qres[i].body.incident_type \in IncidentTypes

C17_Witness ==
    /\ pc = "done" /\ Len(res) = 1 /\ res[1].status = 201
    /\ subject_uins # <<>> /\ finalContent # req.content
    /\ victim_uin = ReporterRow.uin

\* position of a handle in the plain candidates, in first-seen order
HandleIndex(h) == CHOOSE i \in DOMAIN mentions.usernames : mentions.usernames[i] = h

\* C20: among the plain candidates that resolved, label numbers follow the
\* first-seen order of the handles in the text, whatever the order of the
\* rows the identity store returned.
C20_PlainLabelsInTextOrder ==
    pc = "insert" =>
        \A e1, e2 \in Range(aliasMap) :
            (/\ e1.key \in Range(mentions.usernames)
             /\ e2.key \in Range(mentions.usernames)
             /\ HandleIndex(e1.key) < HandleIndex(e2.key))
            => LabelNumber(e1.alias) < LabelNumber(e2.alias)

(* ---- properties of extractMentions ---- *)

\* the positions of a text that lie inside a structured reference
RECURSIVE SpanPositions(_, _)
SpanPositions(t, i) ==
    IF i > Len(t) THEN {}
    ELSE IF UinMatchEnd(t, i) > 0
    THEN (i..UinMatchEnd(t, i)) \cup SpanPositions(t, UinMatchEnd(t, i) + 1)
    ELSE SpanPositions(t, i + 1)

\* the positions outside every structured reference, left to right
OutsidePositions(t) ==
    SelectSeq([ p \in 1..Len(t) |-> p ], LAMBDA p : p \notin SpanPositions(t, 1))

\* two handles that differ in case only
SameFold(a, b) ==
    /\ Len(a) = Len(b)
    /\ \A n \in 1..Len(a) : ToLowerChar(a[n]) = ToLowerChar(b[n])

NoDuplicates(s) == \A i, j \in DOMAIN s : i # j => s[i] # s[j]

\* C18: plain extraction sees only the text outside the structured
\* references: every plain handle returned is an "@" and the handle's
\* characters read at positions outside every structured reference, so no
\* part of a bracketed name or of an id is returned as a handle; and a text
\* all of whose "@" belong to structured references yields no plain handle.
C18_PlainOutsideStructured ==
    pc = "extracted" =>
        LET t   == req.content
            out == OutsidePositions(t)
        IN  /\ \A h \in Range(mentions.usernames) :
                  \E k \in DOMAIN out :
                      /\ t[out[k]] = "@"
                      /\ k + Len(h) <= Len(out)
                      /\ \A n \in 1..Len(h) : ToLowerChar(t[out[k + n]]) = h[n]
            /\ (\A p \in 1..Len(t) : t[p] = "@" => p \in SpanPositions(t, 1))
                  => mentions.usernames = <<>>

C18_Witness ==
    /\ pc = "extracted"
    /\ mentions.uins # <<>> /\ mentions.usernames = <<>>
    /\ \E p \in SpanPositions(req.content, 1) :
          /\ req.content[p] = "@"
          /\ p + 1 \in SpanPositions(req.content, 1)
          /\ IsHandleChar(req.content[p + 1])

\* C19: extractMentions deduplicates keeping first-seen order: the ids are
\* those of the structured references, each once, in the order of their
\* first occurrence; the handles are those read outside the structured
\* references, without capitals, each once whatever its case, in the order
\* of their first occurrence.
C19_DedupFirstSeen ==
    pc = "extracted" =>
        LET ids == UinMatches(req.content, 1)
            raw == UsernameMatches(StripUins(req.content, 1), 1)
            FirstId(u)     == CHOOSE i \in DOMAIN ids : ids[i] = u /\ \A j \in 1..(i - 1) : ids[j] # u
            FirstHandle(h) == CHOOSE i \in DOMAIN raw :
                                 SameFold(raw[i], h) /\ \A j \in 1..(i - 1) : ~SameFold(raw[j], h)
        IN  /\ NoDuplicates(mentions.uins)
            /\ Range(mentions.uins) = Range(ids)
            /\ \A i, j \in DOMAIN mentions.uins :
                  i < j => FirstId(mentions.uins[i]) < FirstId(mentions.uins[j])
            /\ NoDuplicates(mentions.usernames)
            /\ \A h \in Range(mentions.usernames) :
                  /\ \A n \in DOMAIN h : h[n] \notin Range(UpperSeq)
                  /\ \E i \in DOMAIN raw : SameFold(raw[i], h)
            /\ \A i \in DOMAIN raw :
                  Cardinality({ k \in DOMAIN mentions.usernames :
                                  SameFold(raw[i], mentions.usernames[k]) }) = 1
            /\ \A i, j \in DOMAIN mentions.usernames :
                  i < j => FirstHandle(mentions.usernames[i]) < FirstHandle(mentions.usernames[j])

C19_Witness ==
    /\ pc = "extracted"
    /\ Len(UinMatches(req.content, 1)) > Len(mentions.uins)
    /\ Len(UsernameMatches(StripUins(req.content, 1), 1)) > Len(mentions.usernames)
    /\ \E r \in Range(UsernameMatches(StripUins(req.content, 1), 1)) :
          r \notin Range(mentions.usernames)

(* ---- one person, one subject entry, one label ---- *)

\* C21: the subject list of a persisted report holds no identity twice, and
\* one person has one label: when the mentions are resolved, two entries of
\* the alias assignment that refer to the same identity carry the same
\* label, and no identity is pushed twice.
C21_OnePersonOneSubject ==
    /\ \A i \in DOMAIN reports : NoDuplicates(reports[i].subject_uins)
    /\ pc = "insert" =>
          /\ NoDuplicates(subject_uins)
          /\ \A e1, e2 \in Range(aliasMap) :
                IdentitiesOf(e1.key) \cap IdentitiesOf(e2.key) # {} => e1.alias = e2.alias

\* C22: every plain handle extractMentions returns occurs in the original
\* text as @handle, whatever its case: removing the structured references
\* joins no text into a handle the original does not hold.
C22_HandleOccursInOriginal ==
    pc = "extracted" =>
        \A h \in Range(mentions.usernames) :
            \E i \in 1..Len(req.content) :
                /\ req.content[i] = "@"
                /\ i + Len(h) <= Len(req.content)
                /\ SameFold(SubSeq(req.content, i + 1, i + Len(h)), h)

(* ---- one response per request ---- *)

\* the handler is suspended at an await
AwaitStates == {"victimLookup", "uinLookup", "usernameLookup", "insert", "schedule"}

InsertCalls == { i \in DOMAIN calls : calls[i] = "reports.insert" }

\* C23: a submitReport request ends with exactly one response on every path:
\* no response is sent while the handler awaits a collaborator, each return
\* of a collaborator call (or its exception) either ends the request with
\* its one response or starts the next call, of which there are at most
\* five, and a request inserts at most one report.
C23_ExactlyOneResponse ==
    /\ [](/\ pc \in AwaitStates \cup {"idle"} => res = <<>>
          /\ pc = "done" => Len(res) = 1
          /\ pc \in AwaitStates \cup {"idle", "done"}
          /\ Len(calls) <= 5
          /\ Cardinality(InsertCalls) <= 1
          /\ Len(reports) <= submits)
    /\ [][(pc \in AwaitStates /\ pc' # pc) =>
            \/ pc' = "done" /\ Len(res') = 1
            \/ pc' \in AwaitStates /\ Len(calls') = Len(calls) + 1 /\ res' = <<>>]_vars
    /\ [][reports' # reports =>
            /\ Len(reports') = Len(reports) + 1
            /\ pc = "insert" /\ pc' = "schedule"]_vars

C23_Witness ==
    /\ pc = "done" /\ Thrown
    /\ res = <<ErrorResponse(500, "Internal server error")>>
    /\ calls # <<>> /\ calls[Len(calls)] = "reports.insert"
    /\ Len(reports) = 1

(* ---- the submit form ---- *)

\* C24: once the debounce timer has fired and every lookup in flight has
\* returned, the displayed validation is that of the first mention of the
\* content now in the form: its text, whether there is a mention, and for a
\* structured reference that it is valid.
C24_ValidationOfLatestContent ==
    (flookups = {} /\ ~ftimer.set /\ fcontent # <<>>) =>
        LET mention == extractMention(fcontent)
        IN  /\ mentionValidation.mentionText = mention.display
            /\ mentionValidation.hasMention = (mention.type # "null")
            /\ ~mentionValidation.isValidating
            /\ mention.type = "uin" => mentionValidation.isValid = "true"

====
